---- MODULE Spec2Model ----
(***************************************************************************)
(* Model of the inspector proxy server (server/src/index.ts): the          *)
(* LineDecoder, the header pass-through of createTransport, the port       *)
(* allocator findAvailablePort, and the session registry with its three    *)
(* establishment flows (POST /mcp, GET /sse, GET /stdio).                  *)
(***************************************************************************)
EXTENDS Integers, Sequences, FiniteSets, TLC

(***************************************************************************)
(* Bounds of the model.                                                    *)
(***************************************************************************)
MaxText == 4      \* total number of characters pushed to one LineDecoder
MaxChunk == 3     \* longest chunk of one push
MaxRepeat == 2    \* most values of one repeated inbound header
MaxPort == 5      \* highest valid port number (65535 scaled down)
MaxReq == 2       \* establishment requests received by the proxy
MaxPumpReq == 1   \* establishment requests in the runs that exchange messages
MaxMsgs == 2      \* messages raised by all transports together
MaxEnvNames == 1  \* environment variable names of the /stdio environment merge
MaxClients == 2   \* most clients in the form of ClientFormSection
MaxSampling == 4  \* sampling requests received by the client

(***************************************************************************)
(* State.                                                                  *)
(***************************************************************************)
VARIABLES
  buffer,        \* LineDecoder.buffer: sequence of characters
  emitted,       \* values handed to LineDecoder.onmessage, in order
  threw,         \* TRUE once a push has thrown to its caller
  parseErrors,   \* number of console.error reports of push
  pushed,        \* history: concatenation of every chunk pushed so far
  nPushes,       \* history: number of push calls
  splitLines,    \* history: lines completed by a later chunk than they began in
  throwOn,       \* the values on which the handler assigned to onmessage throws
  handlerErrors, \* number of exceptions of the onmessage handler caught by push
  hReq,          \* createTransport: the inbound request (query.transportType, headers)
  hOut,          \* createTransport: headers of the outbound connection, once built
  hResult,       \* createTransport: "pending", "ok", "401", "error" or "invalid"
  envIn,         \* GET /stdio: process.env, the SDK defaults, MCP_ENV_VARS, query.env
  envOut,        \* GET /stdio: the env passed to launchMCPServer
  envDone,       \* GET /stdio: the env has been merged
  pendingSampleRequests,  \* client: the pending sampling requests, in order
  nextRequestId, \* client: nextRequestId.current
  samplingOutcome,  \* client, per id: "none", "pending", "resolved", "rejected"
  lPc,           \* launcher main: "start", "race", "client" or "returned"
  serverProc,    \* launcher: the server process: "none", "running", "failed", "exited"
  clientProc,    \* launcher: the client process: "none", "running", "ended"
  delayFired,    \* launcher: the timer of delay(2 * 1000) has fired
  raceWinner,    \* launcher: how Promise.race settled: "none", "rejected", "resolved", "delay"
  serverOk,      \* launcher: the variable serverOk
  cancelled,     \* launcher: SIGINT was received
  debug,         \* launcher: process.env.DEBUG is set
  lExit,         \* launcher: the code passed to process.exit
  multipleClients,  \* form: the clients of the form, each [name, config]
  savePc,           \* form: handleSave is "idle", "saving" (awaits onSave) or "done"
  saveCalls,        \* form: the argument of every call of onSave, in order
  toasts,           \* form: the titles of the toasts shown, in order
  occupied,      \* ports bound by other local processes (fixed during a run)
  preferred,     \* the argument of the outermost findAvailablePort call
  paPhase,       \* "idle", "listening", "closing", "resolved" or "rejected"
  probePort,     \* startPort of the innermost findAvailablePort call
  boundPort,     \* server.address().port of the probe that is listening
  paResult,      \* the port the promise resolved to
  paError,       \* the error the promise was rejected with
  probed,        \* history: the ports passed to server.listen, in order
  listeners,     \* ports on which a probe listener is bound right now
  serverPhase,   \* startServer: "starting", "listening" or "exited"
  appPort,       \* the port passed to app.listen
  exitCode,      \* the code passed to process.exit
  pc,            \* per request: where its handler is suspended
  flow,          \* per request: "none", "mcp", "sse" or "stdio"
  webAppTransports,         \* Map sessionId -> client-facing transport
  backingServerTransports,  \* Map sessionId -> agent-facing transport
  cState,        \* client-facing transport: "none", "new", "started", "closed"
  bState,        \* agent-facing transport: "none", "open", "closed"
  cOnclose,      \* the handler assigned to webAppTransport.onclose
  bOnclose,      \* the handler assigned to backingServerTransport.onclose
  cOnmessage,    \* the handler assigned to webAppTransport.onmessage
  bOnmessage,    \* the handler assigned to backingServerTransport.onmessage
  child,         \* /stdio child process: "none", "running", "killed", "exited"
  status,        \* HTTP status sent for the request (0: none sent)
  pump,          \* mcpProxy of the session: "off", "on", "stopped"
  cRaised,       \* number of messages raised by the client-facing transport
  bRaised,       \* number of messages raised by the agent-facing transport
  cAttach,       \* value of cRaised when the pump was attached
  bAttach,       \* value of bRaised when the pump was attached
  cSent,         \* messages passed to webAppTransport.send, in order
  bSent,         \* messages passed to backingServerTransport.send, in order
  creates,       \* per request: number of calls of createTransport
  childStdin,    \* per /stdio child: what was written to its standard input
  stdioSendRejected,  \* per /stdio session: a send() of its adapter has rejected
  lastLookup     \* the last request answered "not found": route, id, status

decVars == <<buffer, emitted, threw, parseErrors, pushed, nPushes, splitLines,
             throwOn, handlerErrors>>

envVars == <<envIn, envOut, envDone>>

clientVars == <<pendingSampleRequests, nextRequestId, samplingOutcome>>

launcherVars == <<lPc, serverProc, clientProc, delayFired, raceWinner, serverOk,
                  cancelled, debug, lExit>>

formVars == <<multipleClients, savePc, saveCalls, toasts>>

toolVars == <<launcherVars, formVars>>

hdrVars == <<hReq, hOut, hResult, envVars, clientVars, toolVars>>

startVars == <<serverPhase, appPort, exitCode>>

portVars == <<occupied, preferred, paPhase, probePort, boundPort, paResult,
              paError, probed, listeners, startVars>>

regVars == <<webAppTransports, backingServerTransports>>

reqVars == <<pc, flow, status>>

transportVars == <<cState, bState, cOnclose, bOnclose, cOnmessage, bOnmessage, child>>

msgVars == <<pump, cRaised, bRaised, cAttach, bAttach, cSent, bSent>>

auxVars == <<creates, childStdin, stdioSendRejected, lastLookup>>

proxyVars == <<regVars, reqVars, transportVars, msgVars, auxVars>>

vars == <<decVars, hdrVars, portVars, proxyVars>>

(***************************************************************************)
(* Text is a sequence of one-character strings.                            *)
(***************************************************************************)
Chars == {"1", "[", "]", " ", "\n"}

Last(s) == s[Len(s)]

Front(s) == SubSeq(s, 1, Len(s) - 1)

ChunksOf(n) == UNION {[1..k -> Chars] : k \in 1..n}

(***************************************************************************)
(* String.prototype.split('\n'): k newlines give k+1 segments.             *)
(***************************************************************************)
SplitNLOnce(s) ==
  IF \A i \in 1..Len(s) : s[i] # "\n"
    THEN <<s>>
    ELSE LET i == CHOOSE j \in 1..Len(s) :
                    s[j] = "\n" /\ \A k \in 1..(j - 1) : s[k] # "\n"
         IN <<SubSeq(s, 1, i - 1), SubSeq(s, i + 1, Len(s))>>

RECURSIVE SplitNL(_)
SplitNL(s) ==
  IF \A i \in 1..Len(s) : s[i] # "\n"
    THEN <<s>>
    ELSE LET i == CHOOSE j \in 1..Len(s) :
                    s[j] = "\n" /\ \A k \in 1..(j - 1) : s[k] # "\n"
         IN <<SubSeq(s, 1, i - 1)>> \o SplitNL(SubSeq(s, i + 1, Len(s)))

(***************************************************************************)
(* String.prototype.trim(): strips leading and trailing white space.       *)
(***************************************************************************)
IsWs(c) == c \in {" ", "\n"}

RECURSIVE TrimLeft(_)
TrimLeft(s) == IF s # <<>> /\ IsWs(Head(s)) THEN TrimLeft(Tail(s)) ELSE s

RECURSIVE TrimRight(_)
TrimRight(s) == IF s # <<>> /\ IsWs(Last(s)) THEN TrimRight(Front(s)) ELSE s

Trim(s) == TrimRight(TrimLeft(s))

(***************************************************************************)
(* JSON.parse over the alphabet Chars: white space, a number (digits 1),   *)
(* or an array of at most one value (the alphabet has no comma).  The      *)
(* parsed value is given in canonical form: its tokens without white space.*)
(***************************************************************************)
RECURSIVE SkipWs(_, _)
SkipWs(s, i) == IF i <= Len(s) /\ IsWs(s[i]) THEN SkipWs(s, i + 1) ELSE i

RECURSIVE SkipDigits(_, _)
SkipDigits(s, i) == IF i <= Len(s) /\ s[i] = "1" THEN SkipDigits(s, i + 1) ELSE i

ParseFail == [ok |-> FALSE, next |-> 0, val |-> <<>>]

RECURSIVE ParseValue(_, _)
ParseValue(s, i) ==
  IF i > Len(s) THEN ParseFail
  ELSE IF s[i] = "1"
    THEN LET j == SkipDigits(s, i)
         IN [ok |-> TRUE, next |-> j, val |-> SubSeq(s, i, j - 1)]
  ELSE IF s[i] = "["
    THEN LET k == SkipWs(s, i + 1)
         IN IF k <= Len(s) /\ s[k] = "]"
              THEN [ok |-> TRUE, next |-> k + 1, val |-> <<"[", "]">>]
              ELSE LET r == ParseValue(s, k)
                       m == SkipWs(s, r.next)
                   IN IF r.ok /\ m <= Len(s) /\ s[m] = "]"
                        THEN [ok |-> TRUE, next |-> m + 1,
                              val |-> <<"[">> \o r.val \o <<"]">>]
                        ELSE ParseFail
  ELSE ParseFail

JSONParse(s) ==
  LET r == ParseValue(s, SkipWs(s, 1))
  IN IF r.ok /\ SkipWs(s, r.next) = Len(s) + 1
       THEN [ok |-> TRUE, val |-> r.val]
       ELSE [ok |-> FALSE, val |-> <<>>]

(***************************************************************************)
(* LineDecoder.push: the body of the for loop over the complete lines.     *)
(* st = [out, threw, errors, caught]: the calls made to onmessage so far,  *)
(* whether an exception escaped the loop, the number of parse errors       *)
(* logged, the number of exceptions of the handler logged.                 *)
(***************************************************************************)
\* this.onmessage(value), inside the try block
CallHandler(val, st) ==
  IF val \in throwOn
    THEN [st EXCEPT !.out = Append(@, val), !.caught = @ + 1]
    ELSE [st EXCEPT !.out = Append(@, val)]

HandleLineNoCatch(line, st) ==
  IF Trim(line) = <<>> THEN st
  ELSE LET r == JSONParse(line)
       IN IF r.ok THEN CallHandler(r.val, st)
                  ELSE [st EXCEPT !.threw = TRUE]

HandleLineHandlerEscapes(line, st) ==
  IF Trim(line) = <<>> THEN st
  ELSE LET r == JSONParse(line)
       IN IF r.ok
            THEN IF r.val \in throwOn
                   THEN [st EXCEPT !.out = Append(@, r.val), !.threw = TRUE]
                   ELSE [st EXCEPT !.out = Append(@, r.val)]
            ELSE [st EXCEPT !.errors = @ + 1]

HandleLine(line, st) ==
  IF Trim(line) = <<>> THEN st
  ELSE LET r == JSONParse(line)
       IN IF r.ok THEN CallHandler(r.val, st)
                  ELSE [st EXCEPT !.errors = @ + 1]

RECURSIVE ProcessLines(_, _)
ProcessLines(lines, st) ==
  IF lines = <<>> \/ st.threw THEN st
  ELSE ProcessLines(Tail(lines), HandleLine(Head(lines), st))

(***************************************************************************)
(* this.buffer = lines.pop() || ""                                         *)
(***************************************************************************)
RetainDropped(lines) == <<>>

Retain(lines) == Last(lines)

Push(chunk) ==
  /\ ~threw
  /\ Len(pushed) + Len(chunk) <= MaxText
  /\ LET lines == SplitNL(buffer \o chunk)
         st == ProcessLines(Front(lines),
                            [out |-> emitted, threw |-> FALSE, errors |-> parseErrors,
                             caught |-> handlerErrors])
     IN /\ buffer' = Retain(lines)
        /\ emitted' = st.out
        /\ threw' = st.threw
        /\ parseErrors' = st.errors
        /\ handlerErrors' = st.caught
        /\ splitLines' = splitLines +
             (IF buffer # <<>> /\ Len(lines) > 1 THEN 1 ELSE 0)
  /\ pushed' = pushed \o chunk
  /\ nPushes' = nPushes + 1
  /\ UNCHANGED throwOn
  /\ UNCHANGED <<hdrVars, portVars, proxyVars>>

(***************************************************************************)
(* Reference reading of a text, character by character: its complete       *)
(* (newline-terminated) lines, and the values of those that are not blank  *)
(* and are valid JSON.                                                     *)
(***************************************************************************)
RECURSIVE RefLines(_, _, _)
RefLines(T, i, cur) ==
  IF i > Len(T) THEN <<>>
  ELSE IF T[i] = "\n" THEN <<cur>> \o RefLines(T, i + 1, <<>>)
  ELSE RefLines(T, i + 1, Append(cur, T[i]))

IsBlank(l) == \A i \in 1..Len(l) : IsWs(l[i])

IsBadLine(l) == ~IsBlank(l) /\ ~JSONParse(l).ok

IsGoodLine(l) == ~IsBlank(l) /\ JSONParse(l).ok

RECURSIVE GoodVals(_)
GoodVals(ls) ==
  IF ls = <<>> THEN <<>>
  ELSE (IF IsGoodLine(Head(ls)) THEN <<JSONParse(Head(ls)).val>> ELSE <<>>)
       \o GoodVals(Tail(ls))

OneChunk(T) ==
  ProcessLines(Front(SplitNL(T)),
               [out |-> <<>>, threw |-> FALSE, errors |-> 0, caught |-> 0]).out

\* C5: however the text pushed so far was cut into chunks, the messages
\* emitted are exactly the parsed values of its newline-terminated, non-blank,
\* valid JSON lines, in order: the same as pushing the whole text as one chunk.
C5_ChunkingInvariant ==
  /\ emitted = GoodVals(RefLines(pushed, 1, <<>>))
  /\ emitted = OneChunk(pushed)

\* C5 witness: two chunks carrying two lines, the second line completed by the
\* second chunk, have yielded exactly two messages.
C5_Witness ==
  /\ nPushes = 2
  /\ splitLines = 1
  /\ Len(RefLines(pushed, 1, <<>>)) = 2
  /\ Len(emitted) = 2

\* C6: a complete line that is not valid JSON is never handed to onmessage,
\* push does not throw, and every valid line after it is still emitted.
C6_BadLineSkipped ==
  LET ls == RefLines(pushed, 1, <<>>)
  IN /\ ~threw
     /\ \A i \in 1..Len(ls) : IsBadLine(ls[i]) =>
          /\ \A k \in 1..Len(emitted) : emitted[k] # ls[i]
          /\ LET after == GoodVals(SubSeq(ls, i + 1, Len(ls)))
             IN /\ Len(emitted) >= Len(after)
                /\ SubSeq(emitted, Len(emitted) - Len(after) + 1, Len(emitted)) = after

\* C6 witness: one bad line then one good line were pushed, in separate
\* chunks, and only the good line was emitted.
C6_Witness ==
  LET ls == RefLines(pushed, 1, <<>>)
  IN /\ Len(ls) = 2
     /\ IsBadLine(ls[1])
     /\ IsGoodLine(ls[2])
     /\ nPushes >= 2
     /\ parseErrors = 1
     /\ emitted = <<JSONParse(ls[2]).val>>

\* the text that follows the last newline of T (all of T when it has none)
AfterLastNewline(T) ==
  LET nl == {i \in 1..Len(T) : T[i] = "\n"}
      k == IF nl = {} THEN 0 ELSE CHOOSE i \in nl : \A j \in nl : j <= i
  IN SubSeq(T, k + 1, Len(T))

\* C20: after every push the buffer is exactly the text that follows the last
\* newline of everything pushed so far (empty when that text ends with a
\* newline); it holds no newline, and only newline-terminated lines have been
\* parsed: each of them that is not blank was emitted or logged as an error.
C20_BufferIsUnterminatedTail ==
  LET ls == RefLines(pushed, 1, <<>>)
  IN /\ buffer = AfterLastNewline(pushed)
     /\ \A i \in 1..Len(buffer) : buffer[i] # "\n"
     /\ (pushed # <<>> /\ Last(pushed) = "\n") => buffer = <<>>
     /\ Len(emitted) + parseErrors =
          Cardinality({i \in 1..Len(ls) : ~IsBlank(ls[i])})

\* C20 witness: after a complete line was emitted, an unterminated line that
\* arrived in two chunks is held whole in the buffer and has not been parsed.
C20_Witness ==
  /\ nPushes >= 2
  /\ Len(emitted) = 1
  /\ parseErrors = 0
  /\ Len(RefLines(pushed, 1, <<>>)) = 1
  /\ buffer = <<"1", "1">>
  /\ splitLines = 0

\* C29: when the onmessage handler throws on a decoded value, push does not
\* throw: every valid line of the same and of later chunks is still handed to
\* the handler, each exception is caught and logged, and the buffer is still
\* the unterminated text after the last newline.
C29_HandlerThrowIsCaught ==
  /\ ~threw
  /\ emitted = GoodVals(RefLines(pushed, 1, <<>>))
  /\ handlerErrors = Cardinality({i \in 1..Len(emitted) : emitted[i] \in throwOn})
  /\ buffer = AfterLastNewline(pushed)

\* C29 witness: the handler threw on the first line of a chunk; the rest of
\* the chunk was kept in the buffer and, completed by the next chunk, was
\* handed to the handler, which threw again.
C29_Witness ==
  /\ nPushes = 2
  /\ splitLines = 1
  /\ handlerErrors = 2
  /\ Len(emitted) = 2
  /\ buffer = <<>>

\* the handler of GET /stdio passes the message on and does not throw
DecoderIdle ==
  /\ throwOn = {}
  /\ handlerErrors = 0
  /\ buffer = <<>>
  /\ emitted = <<>>
  /\ threw = FALSE
  /\ parseErrors = 0
  /\ pushed = <<>>
  /\ nPushes = 0
  /\ splitLines = 0

(***************************************************************************)
(* createTransport: the headers of the outbound connection.                *)
(* An inbound header value is undefined, one string, or (a repeated        *)
(* header) an array of two or more strings.                                *)
(***************************************************************************)
HeaderNames == {"authorization", "mcp-session-id", "last-event-id", "cookie"}

HeaderStrings == {"a", "b"}

Undefined == [arr |-> FALSE, v |-> <<>>]

HeaderValues ==
  {Undefined}
  \cup {[arr |-> FALSE, v |-> <<x>>] : x \in HeaderStrings}
  \cup {[arr |-> TRUE, v |-> a] : a \in UNION {[1..k -> HeaderStrings] : k \in 2..MaxRepeat}}

TransportTypes == {"sse", "streamable-http", "stdio"}

Requests == [transportType : TransportTypes, headers : [HeaderNames -> HeaderValues]]

NoHeaders == <<>>

SSE_HEADERS_PASSTHROUGH_Cookie == <<"authorization", "cookie">>

SSE_HEADERS_PASSTHROUGH == <<"authorization">>

STREAMABLE_HTTP_HEADERS_PASSTHROUGH ==
  <<"authorization", "mcp-session-id", "last-event-id">>

\* Array.isArray(value) ? value[value.length - 1] : value
PickValueFirst(value) == value.v[1]

PickValue(value) == IF value.arr THEN value.v[Len(value.v)] ELSE value.v[1]

\* headers[key] = ...: sets or replaces one property of the headers object
SetHeader(headers, key, val) ==
  [k \in DOMAIN headers \cup {key} |-> IF k = key THEN val ELSE headers[k]]

\* for (const key of PASSTHROUGH) { if (req.headers[key] === undefined) continue; ... }
RECURSIVE CopyHeaders(_, _, _)
CopyHeaders(keys, req, headers) ==
  IF keys = <<>> THEN headers
  ELSE LET key == Head(keys)
           value == req.headers[key]
       IN CopyHeaders(Tail(keys), req,
                      IF value = Undefined THEN headers
                      ELSE SetHeader(headers, key, PickValue(value)))

SseHeaders(req) ==
  CopyHeaders(SSE_HEADERS_PASSTHROUGH, req,
              [k \in {"Accept"} |-> "text/event-stream"])

StreamableHeaders(req) ==
  CopyHeaders(STREAMABLE_HTTP_HEADERS_PASSTHROUGH, req,
              [k \in {"Accept"} |-> "text/event-stream, application/json"])

\* what transport.start() can do: connect, be rejected with 401, fail otherwise
StartOutcomes == {"ok", "401", "error"}

CreateTransport(outcome) ==
  /\ hResult = "pending"
  /\ IF hReq.transportType = "sse"
       THEN hOut' = SseHeaders(hReq) /\ hResult' = outcome
     ELSE IF hReq.transportType = "streamable-http"
       THEN hOut' = StreamableHeaders(hReq) /\ hResult' = outcome
     ELSE hOut' = NoHeaders /\ hResult' = "invalid"
  /\ UNCHANGED <<hReq, envVars, clientVars, toolVars>>
  /\ UNCHANGED <<decVars, portVars, proxyVars>>

AllowList(type) ==
  IF type = "sse" THEN {"authorization"}
  ELSE {"authorization", "mcp-session-id", "last-event-id"}

HeadersOf(req) ==
  IF req.transportType = "sse" THEN SseHeaders(req) ELSE StreamableHeaders(req)

\* C7: the outbound headers hold only Accept and allow-listed names of the
\* selected style, and a request differing from this one only in headers
\* outside the allow-list yields the same outbound headers.
C7_OnlyAllowListed ==
  hResult \in StartOutcomes =>
    /\ DOMAIN hOut \subseteq {"Accept"} \cup AllowList(hReq.transportType)
    /\ "Accept" \in DOMAIN hOut
    /\ \A n \in HeaderNames \ AllowList(hReq.transportType) :
         \A v \in HeaderValues :
           HeadersOf([hReq EXCEPT !.headers[n] = v]) = hOut

\* C7 witness: a request carrying a cookie and an authorization header has
\* had its outbound headers built.
C7_Witness ==
  /\ hResult = "ok"
  /\ hReq.headers["cookie"] # Undefined
  /\ hReq.headers["authorization"] # Undefined
  /\ "authorization" \in DOMAIN hOut

\* C8: each allow-listed header present inbound is outbound with the same
\* value (the last one when repeated), an absent one is not added; sse passes
\* authorization only, streamable-http passes authorization, mcp-session-id
\* and last-event-id.
C8_PassThroughValues ==
  hResult \in StartOutcomes =>
    LET passed == IF hReq.transportType = "sse"
                    THEN {"authorization"}
                    ELSE {"authorization", "mcp-session-id", "last-event-id"}
    IN /\ \A n \in passed :
            LET value == hReq.headers[n]
            IN IF value = Undefined THEN n \notin DOMAIN hOut
               ELSE /\ n \in DOMAIN hOut
                    /\ hOut[n] = value.v[Len(value.v)]
       /\ \A n \in HeaderNames \ passed : n \notin DOMAIN hOut

\* C8 witness: a streamable-http request with a repeated authorization header
\* whose values differ, a session header and no last-event-id has been built.
C8_Witness ==
  /\ hResult = "ok"
  /\ hReq.transportType = "streamable-http"
  /\ hReq.headers["authorization"].arr
  /\ Len(hReq.headers["authorization"].v) = 2
  /\ hReq.headers["authorization"].v[1] # hReq.headers["authorization"].v[2]
  /\ hReq.headers["mcp-session-id"] # Undefined
  /\ hReq.headers["last-event-id"] = Undefined
  /\ hOut["authorization"] = hReq.headers["authorization"].v[2]

HeadersIdle ==
  /\ hReq = [transportType |-> "stdio", headers |-> [n \in HeaderNames |-> Undefined]]
  /\ hOut = NoHeaders
  /\ hResult = "pending"
(***************************************************************************)
(* The environment of the /stdio child.  An environment is a map from      *)
(* names to a value or NotSet (the name is not a property of the           *)
(* object).                                                                *)
(***************************************************************************)
EnvNameList == <<"PATH", "HOME", "TOKEN">>

EnvNames == {EnvNameList[i] : i \in 1..MaxEnvNames}

EnvValues == {"x", "y"}

\* the name is not a property of the object
NotSet == "undefined"

EnvMaps == [EnvNames -> EnvValues \cup {NotSet}]

EmptyEnv == [k \in EnvNames |-> NotSet]

\* object spread {...a, ...b}: the properties of b replace those of a
SpreadKeepFirst(a, b) == [k \in DOMAIN a |-> IF a[k] # NotSet THEN a[k] ELSE b[k]]

Spread(a, b) == [k \in DOMAIN a |-> IF b[k] # NotSet THEN b[k] ELSE a[k]]

\* const defaultEnvironment = {...getDefaultEnvironment(), ...MCP_ENV_VARS}
DefaultEnvironment(sdk, mcp) == Spread(sdk, mcp)

\* const env = {...process.env, ...defaultEnvironment, ...queryEnv}
StdioEnv(processEnv, defaultEnvironment, queryEnv) ==
  Spread(Spread(processEnv, defaultEnvironment), queryEnv)

MergeEnv ==
  /\ ~envDone
  /\ envOut' = StdioEnv(envIn.process, DefaultEnvironment(envIn.sdk, envIn.mcp),
                        envIn.query)
  /\ envDone' = TRUE
  /\ UNCHANGED <<envIn, hReq, hOut, hResult, clientVars, toolVars>>
  /\ UNCHANGED <<decVars, portVars, proxyVars>>

\* C26: for every name, the merged environment holds the value of the
\* request's env query if it defines the name, else that of MCP_ENV_VARS,
\* else that of the SDK default environment, else that of the proxy's own
\* environment; a name that none of them defines is absent.
C26_EnvPrecedence ==
  envDone =>
    \A k \in EnvNames :
      envOut[k] =
        IF envIn.query[k] # NotSet THEN envIn.query[k]
        ELSE IF envIn.mcp[k] # NotSet THEN envIn.mcp[k]
        ELSE IF envIn.sdk[k] # NotSet THEN envIn.sdk[k]
        ELSE envIn.process[k]

\* C26 witness: a name defined in all four maps, with a different value in
\* the request's env query, has the value of the query.
C26_Witness ==
  /\ envDone
  /\ \E k \in EnvNames :
       /\ envIn.process[k] = "x" /\ envIn.sdk[k] = "x" /\ envIn.mcp[k] = "x"
       /\ envIn.query[k] = "y"
       /\ envOut[k] = "y"

EnvIdle ==
  /\ envIn = [process |-> EmptyEnv, sdk |-> EmptyEnv, mcp |-> EmptyEnv, query |-> EmptyEnv]
  /\ envOut = EmptyEnv
  /\ envDone = FALSE

(***************************************************************************)
(* The pending sampling requests of the client (App.tsx, useMCPOperations).*)
(* An entry of the list is its id; resolve and reject of the entry are     *)
(* recorded in samplingOutcome.                                            *)
(***************************************************************************)
SamplingIds == 0..(MaxSampling - 1)

HasId(list, id) == \E i \in 1..Len(list) : list[i] = id

\* prev.filter((req) => req.id !== id)
RemoveByIdAndEarlier(list, id) == SelectSeq(list, LAMBDA e : e > id)

RemoveById(list, id) == SelectSeq(list, LAMBDA e : e # id)

\* req.resolve(result) / req.reject(error) of the entries with that id
Settle(outcome, list, id, how) ==
  [i \in DOMAIN outcome |-> IF i = id /\ HasId(list, i) THEN how ELSE outcome[i]]

\* onPendingRequest: append {id: nextRequestId.current++, request, resolve, reject}
OnPendingRequest ==
  /\ nextRequestId < MaxSampling
  /\ pendingSampleRequests' = Append(pendingSampleRequests, nextRequestId)
  /\ samplingOutcome' = [samplingOutcome EXCEPT ![nextRequestId] = "pending"]
  /\ nextRequestId' = nextRequestId + 1
  /\ UNCHANGED <<hReq, hOut, hResult, envVars, toolVars>>
  /\ UNCHANGED <<decVars, portVars, proxyVars>>

HandleApproveSampling(id) ==
  /\ pendingSampleRequests' = RemoveById(pendingSampleRequests, id)
  /\ samplingOutcome' = Settle(samplingOutcome, pendingSampleRequests, id, "resolved")
  /\ UNCHANGED nextRequestId
  /\ UNCHANGED <<hReq, hOut, hResult, envVars, toolVars>>
  /\ UNCHANGED <<decVars, portVars, proxyVars>>

HandleRejectSampling(id) ==
  /\ pendingSampleRequests' = RemoveById(pendingSampleRequests, id)
  /\ samplingOutcome' = Settle(samplingOutcome, pendingSampleRequests, id, "rejected")
  /\ UNCHANGED nextRequestId
  /\ UNCHANGED <<hReq, hOut, hResult, envVars, toolVars>>
  /\ UNCHANGED <<decVars, portVars, proxyVars>>

\* the entries of list other than id, in their order
Others(list, id) == SelectSeq(list, LAMBDA e : e # id)

\* C30: the ids in the pending list strictly increase and each is below the
\* next id to hand out; exactly the listed ids are unsettled; a step either
\* appends one entry with a new id, or removes the entries of one id from
\* the list and settles that id alone, keeping every other entry, its order
\* and its outcome; approve or reject of an id that is not listed is no step.
C30_SamplingFrame ==
  /\ [](/\ \A i, j \in 1..Len(pendingSampleRequests) :
             i < j => pendingSampleRequests[i] < pendingSampleRequests[j]
        /\ \A i \in 1..Len(pendingSampleRequests) :
             pendingSampleRequests[i] < nextRequestId
        /\ \A id \in SamplingIds :
             samplingOutcome[id] = "pending" <=> HasId(pendingSampleRequests, id))
  /\ [][\/ /\ nextRequestId' = nextRequestId + 1
            /\ pendingSampleRequests' = Append(pendingSampleRequests, nextRequestId)
            /\ \A id \in SamplingIds \ {nextRequestId} :
                 samplingOutcome'[id] = samplingOutcome[id]
         \/ \E id \in SamplingIds :
              /\ HasId(pendingSampleRequests, id)
              /\ nextRequestId' = nextRequestId
              /\ pendingSampleRequests' = Others(pendingSampleRequests, id)
              /\ samplingOutcome'[id] \in {"resolved", "rejected"}
              /\ \A other \in SamplingIds \ {id} :
                   samplingOutcome'[other] = samplingOutcome[other]]_clientVars

\* C30 witness: of four requests the second was approved and the third
\* rejected; the first and the fourth are still pending, in that order.
C30_Witness ==
  /\ nextRequestId = 4
  /\ pendingSampleRequests = <<0, 3>>
  /\ samplingOutcome[1] = "resolved"
  /\ samplingOutcome[2] = "rejected"

SamplingIdle ==
  /\ pendingSampleRequests = <<>>
  /\ nextRequestId = 0
  /\ samplingOutcome = [id \in SamplingIds |-> "none"]

(***************************************************************************)
(* The launcher (main of the start script): it spawns the server, races    *)
(* the server's promise against delay(2000), and starts the client when    *)
(* serverOk is truthy.                                                     *)
(***************************************************************************)
\* the process has not exited
NoExit == -1

\* values of serverOk: undefined, true (the delay), or the output of a
\* server that exited with code 0 (empty or not)
ServerOkValues == {"undefined", "true", "", "output"}

\* if (serverOk)
TruthyAlways(v) == TRUE

Truthy(v) == v \in {"true", "output"}

LauncherRunning == lExit = NoExit

\* server = spawnPromise("node", [inspectorServerPath, ...]); the race and
\* the timer of delay are set up in the same synchronous block
SpawnServer ==
  /\ LauncherRunning
  /\ lPc = "start"
  /\ serverProc' = "running"
  /\ lPc' = "race"
  /\ UNCHANGED <<clientProc, delayFired, raceWinner, serverOk, cancelled, debug, lExit>>
  /\ UNCHANGED <<hReq, hOut, hResult, envVars, clientVars, formVars>>
  /\ UNCHANGED <<decVars, portVars, proxyVars>>

\* the server's promise rejects: spawn error, exit code other than 0, abort
ServerRejects ==
  /\ LauncherRunning
  /\ serverProc = "running"
  /\ serverProc' = "failed"
  /\ raceWinner' = IF raceWinner = "none" THEN "rejected" ELSE raceWinner
  /\ UNCHANGED <<lPc, clientProc, delayFired, serverOk, cancelled, debug, lExit>>
  /\ UNCHANGED <<hReq, hOut, hResult, envVars, clientVars, formVars>>
  /\ UNCHANGED <<decVars, portVars, proxyVars>>

\* the server exits with code 0: its promise resolves to its output
ServerResolves(out) ==
  /\ LauncherRunning
  /\ serverProc = "running"
  /\ serverProc' = "exited"
  /\ IF raceWinner = "none"
       THEN raceWinner' = "resolved" /\ serverOk' = out
       ELSE UNCHANGED <<raceWinner, serverOk>>
  /\ UNCHANGED <<lPc, clientProc, delayFired, cancelled, debug, lExit>>
  /\ UNCHANGED <<hReq, hOut, hResult, envVars, clientVars, formVars>>
  /\ UNCHANGED <<decVars, portVars, proxyVars>>

\* delay(2 * 1000): setTimeout(resolve, ms, true)
DelayElapses ==
  /\ LauncherRunning
  /\ lPc # "start"
  /\ ~delayFired
  /\ delayFired' = TRUE
  /\ IF raceWinner = "none"
       THEN raceWinner' = "delay" /\ serverOk' = "true"
       ELSE UNCHANGED <<raceWinner, serverOk>>
  /\ UNCHANGED <<lPc, serverProc, clientProc, cancelled, debug, lExit>>
  /\ UNCHANGED <<hReq, hOut, hResult, envVars, clientVars, formVars>>
  /\ UNCHANGED <<decVars, portVars, proxyVars>>

\* process.on("SIGINT"): cancelled = true; abort.abort()
Sigint ==
  /\ LauncherRunning
  /\ ~cancelled
  /\ cancelled' = TRUE
  /\ UNCHANGED <<lPc, serverProc, clientProc, delayFired, raceWinner, serverOk, debug, lExit>>
  /\ UNCHANGED <<hReq, hOut, hResult, envVars, clientVars, formVars>>
  /\ UNCHANGED <<decVars, portVars, proxyVars>>

\* main resumes after `await Promise.race(...)`: the catch block leaves
\* serverOk undefined; `if (serverOk)` starts the client, else main returns
AfterRace ==
  /\ LauncherRunning
  /\ lPc = "race"
  /\ raceWinner # "none"
  /\ IF Truthy(serverOk)
       THEN /\ clientProc' = "running"
            /\ lPc' = "client"
            /\ UNCHANGED lExit
       ELSE /\ lPc' = "returned"
            /\ lExit' = 0
            /\ UNCHANGED clientProc
  /\ UNCHANGED <<serverProc, delayFired, raceWinner, serverOk, cancelled, debug>>
  /\ UNCHANGED <<hReq, hOut, hResult, envVars, clientVars, formVars>>
  /\ UNCHANGED <<decVars, portVars, proxyVars>>

\* the client's promise settles; a rejection is rethrown unless the
\* launcher was cancelled and DEBUG is not set
ClientEnds(rejected) ==
  /\ LauncherRunning
  /\ lPc = "client"
  /\ clientProc = "running"
  /\ clientProc' = "ended"
  /\ lPc' = "returned"
  /\ lExit' = IF rejected /\ (~cancelled \/ debug) THEN 1 ELSE 0
  /\ UNCHANGED <<serverProc, delayFired, raceWinner, serverOk, cancelled, debug>>
  /\ UNCHANGED <<hReq, hOut, hResult, envVars, clientVars, formVars>>
  /\ UNCHANGED <<decVars, portVars, proxyVars>>

\* C33: the client process exists only once the race between the server's
\* promise and the delay has settled with a truthy serverOk; when the race
\* was settled by the server's rejection the client is never started; when
\* it was settled by the delay the client is started only after the timer
\* has fired, in the step in which main resumes.
C33_ClientAfterReadiness ==
  /\ [](clientProc # "none" => (raceWinner \in {"delay", "resolved"} /\ Truthy(serverOk)))
  /\ [](raceWinner = "rejected" => (clientProc = "none" /\ serverOk = "undefined"))
  /\ [](raceWinner = "delay" => (delayFired /\ serverOk = "true"))
  /\ [][(clientProc' # "none" /\ clientProc = "none") =>
          (lPc = "race" /\ raceWinner # "none" /\ raceWinner # "rejected")]_vars

\* C33 witness: the delay won the race while the server was still running,
\* and the client was started afterwards.
C33_Witness ==
  /\ raceWinner = "delay"
  /\ delayFired
  /\ serverProc = "running"
  /\ clientProc = "running"
  /\ lPc = "client"

LauncherIdle ==
  /\ lPc = "start"
  /\ serverProc = "none"
  /\ clientProc = "none"
  /\ delayFired = FALSE
  /\ raceWinner = "none"
  /\ serverOk = "undefined"
  /\ cancelled = FALSE
  /\ debug = FALSE
  /\ lExit = NoExit

(***************************************************************************)
(* ClientFormSection.handleSave.  Names and commands are character         *)
(* sequences, so that trim() is computed; a URL is one of three strings:   *)
(* the empty one, one that the URL constructor rejects, one it accepts.    *)
(***************************************************************************)
ClientNames == {<<>>, <<" ">>, <<"1">>}

Commands == {<<>>, <<" ">>, <<"1">>}

Urls == {"", "example", "http://h"}

\* new URL(s) throws unless s is an absolute URL
NewURLThrows(u) == u # "http://h"

HttpConfigs == [type : {"http"}, url : Urls, command : {<<>>}]

StdioConfigs == [type : {"stdio"}, url : {""}, command : Commands]

FormClients == [name : ClientNames, config : HttpConfigs \cup StdioConfigs]

FormLists == UNION {[1..n -> FormClients] : n \in 0..MaxClients}

IsHttpConfig(config) == config.type = "http"

IsStdioConfig(config) == config.type = "stdio"

\* multipleClients.filter((c) => c.name.trim())
ValidClients(clients) == SelectSeq(clients, LAMBDA c : Trim(c.name) # <<>>)

\* the body of the loop for one client: the error it pushes, or "ok"
CheckClient(client) ==
  IF IsHttpConfig(client.config) /\ client.config.url = ""
    THEN "URL is required for HTTP connections"
  ELSE IF IsHttpConfig(client.config) /\ NewURLThrows(client.config.url)
    THEN "Invalid URL format"
  ELSE IF IsStdioConfig(client.config) /\ Trim(client.config.command) = <<>>
    THEN "Command is required for stdio connections"
  ELSE "ok"

\* configErrors after the loop
ConfigErrorsNone(validClients) == <<>>

ConfigErrors(validClients) ==
  SelectSeq([i \in 1..Len(validClients) |-> CheckClient(validClients[i])],
            LAMBDA e : e # "ok")

\* clientsToSave after the loop
ClientsToSave(validClients) ==
  SelectSeq(validClients, LAMBDA c : CheckClient(c) = "ok")

\* handleSave up to its await of onSave, or to its early return
HandleSave ==
  /\ savePc = "idle"
  /\ LET validClients == ValidClients(multipleClients)
     IN IF Len(validClients) = 0
          THEN /\ toasts' = Append(toasts, "No valid clients")
               /\ savePc' = "done"
               /\ UNCHANGED saveCalls
        ELSE IF Len(ConfigErrors(validClients)) > 0
          THEN /\ toasts' = Append(toasts, "Configuration errors")
               /\ savePc' = "done"
               /\ UNCHANGED saveCalls
        ELSE /\ saveCalls' = Append(saveCalls, ClientsToSave(validClients))
             /\ savePc' = "saving"
             /\ UNCHANGED toasts
  /\ UNCHANGED multipleClients
  /\ UNCHANGED <<hReq, hOut, hResult, envVars, clientVars, launcherVars>>
  /\ UNCHANGED <<decVars, portVars, proxyVars>>

\* onSave resolves: one toast when result.success is not empty, one when
\* result.failed is not empty
OnSaveResolves(someSuccess, someFailed) ==
  /\ savePc = "saving"
  /\ savePc' = "done"
  /\ toasts' = toasts
                \o (IF someSuccess THEN <<"Clients saved successfully">> ELSE <<>>)
                \o (IF someFailed THEN <<"Some clients failed to save">> ELSE <<>>)
  /\ UNCHANGED <<multipleClients, saveCalls>>
  /\ UNCHANGED <<hReq, hOut, hResult, envVars, clientVars, launcherVars>>
  /\ UNCHANGED <<decVars, portVars, proxyVars>>

\* onSave rejects: the catch block
OnSaveRejects ==
  /\ savePc = "saving"
  /\ savePc' = "done"
  /\ toasts' = Append(toasts, "Error saving clients")
  /\ UNCHANGED <<multipleClients, saveCalls>>
  /\ UNCHANGED <<hReq, hOut, hResult, envVars, clientVars, launcherVars>>
  /\ UNCHANGED <<decVars, portVars, proxyVars>>

\* a client of the form has a name that is not blank
Named(client) == client.name \notin {<<>>, <<" ">>}

\* a configuration error: an HTTP configuration without a valid URL, or a
\* stdio configuration with a blank command
Invalid(client) ==
  \/ client.config.type = "http" /\ client.config.url # "http://h"
  \/ client.config.type = "stdio" /\ client.config.command \in {<<>>, <<" ">>}

\* C34: one call of handleSave calls onSave at most once, and only when
\* some client is named and no named client has a configuration error;
\* when a named client is invalid onSave is not called at all; no client
\* with a blank name is in the list passed to onSave.
C34_SaveAllOrNothing ==
  LET named == {i \in 1..Len(multipleClients) : Named(multipleClients[i])}
  IN /\ Len(saveCalls) <= 1
     /\ saveCalls # <<>> =>
          /\ named # {}
          /\ \A i \in named : ~Invalid(multipleClients[i])
     /\ (\E i \in named : Invalid(multipleClients[i])) => saveCalls = <<>>
     /\ \A k \in 1..Len(saveCalls) : \A j \in 1..Len(saveCalls[k]) :
          Named(saveCalls[k][j])

\* C34 witness: the form holds a client with a blank name and an invalid
\* configuration and a named valid client; onSave was called once, with
\* the named client alone.
C34_Witness ==
  /\ savePc = "done"
  /\ Len(multipleClients) = 2
  /\ ~Named(multipleClients[1])
  /\ Invalid(multipleClients[1])
  /\ Named(multipleClients[2])
  /\ saveCalls = <<<<multipleClients[2]>>>>
  /\ toasts = <<"Clients saved successfully">>

FormIdle ==
  /\ multipleClients = <<>>
  /\ savePc = "idle"
  /\ saveCalls = <<>>
  /\ toasts = <<>>

(***************************************************************************)
(* findAvailablePort.  Port numbers are 0..MaxPort; listen(0) binds a port *)
(* the operating system picks; listen on a number above MaxPort throws.    *)
(***************************************************************************)
Ports == 1..MaxPort

NoPort == -1

FreePorts == Ports \ occupied

\* findAvailablePort(startPort + 1)
NextProbePortSkip(p) == p + 2

NextProbePortSame(p) == p

NextProbePort(p) == p + 1

\* new Promise(...): createServer(), server.listen(startPort, cb), server.on("error", ...)
\* listen throws on a port outside the valid range, which rejects the promise.
Probe(p) ==
  IF p > MaxPort
    THEN /\ paPhase' = "rejected"
         /\ paError' = "ERR_SOCKET_BAD_PORT"
         /\ UNCHANGED <<probePort, probed>>
    ELSE /\ paPhase' = "listening"
         /\ probePort' = p
         /\ probed' = Append(probed, p)
         /\ UNCHANGED paError

\* startServer: await findAvailablePort(Number(PORT))
FindAvailablePort ==
  /\ paPhase = "idle"
  /\ Probe(preferred)
  /\ UNCHANGED <<occupied, preferred, boundPort, paResult, listeners>>
  /\ UNCHANGED startVars
  /\ UNCHANGED <<decVars, hdrVars, proxyVars>>

\* the listen callback: port = server.address().port; server.close(...)
OnListening ==
  /\ paPhase = "listening"
  /\ \E q \in FreePorts :
       /\ probePort = 0 \/ q = probePort
       /\ boundPort' = q
       /\ listeners' = listeners \cup {q}
  /\ paPhase' = "closing"
  /\ UNCHANGED <<occupied, preferred, probePort, paResult, paError, probed>>
  /\ UNCHANGED startVars
  /\ UNCHANGED <<decVars, hdrVars, proxyVars>>

\* the close callback: resolve(port)
OnClosedStillBound ==
  /\ paPhase = "closing"
  /\ paPhase' = "resolved"
  /\ paResult' = boundPort
  /\ UNCHANGED <<occupied, preferred, probePort, boundPort, paError, probed, listeners>>
  /\ UNCHANGED startVars
  /\ UNCHANGED <<decVars, hdrVars, proxyVars>>

OnClosed ==
  /\ paPhase = "closing"
  /\ listeners' = listeners \ {boundPort}
  /\ paPhase' = "resolved"
  /\ paResult' = boundPort
  /\ UNCHANGED <<occupied, preferred, probePort, boundPort, paError, probed>>
  /\ UNCHANGED startVars
  /\ UNCHANGED <<decVars, hdrVars, proxyVars>>

\* server.on("error") with err.code === "EADDRINUSE": probe the next port
OnErrorInUse ==
  /\ paPhase = "listening"
  /\ probePort \in occupied \/ (probePort = 0 /\ FreePorts = {})
  /\ Probe(NextProbePort(probePort))
  /\ UNCHANGED <<occupied, preferred, boundPort, paResult, listeners>>
  /\ UNCHANGED startVars
  /\ UNCHANGED <<decVars, hdrVars, proxyVars>>

\* server.on("error") with any other code (EACCES, ...): reject(err)
OnErrorOtherProbesNext ==
  /\ paPhase = "listening"
  /\ Probe(NextProbePort(probePort))
  /\ UNCHANGED <<occupied, preferred, boundPort, paResult, listeners>>
  /\ UNCHANGED startVars
  /\ UNCHANGED <<decVars, hdrVars, proxyVars>>

OnErrorOther ==
  /\ paPhase = "listening"
  /\ paPhase' = "rejected"
  /\ paError' = "EACCES"
  /\ UNCHANGED <<occupied, preferred, probePort, boundPort, paResult, probed, listeners>>
  /\ UNCHANGED startVars
  /\ UNCHANGED <<decVars, hdrVars, proxyVars>>

\* startServer: app.listen(availablePort) and its "listening" event
ServerListening ==
  /\ serverPhase = "starting"
  /\ paPhase = "resolved"
  /\ serverPhase' = "listening"
  /\ appPort' = paResult
  /\ UNCHANGED <<occupied, preferred, paPhase, probePort, boundPort, paResult,
                 paError, probed, listeners, exitCode>>
  /\ UNCHANGED <<decVars, hdrVars, proxyVars>>

\* startServer: app.listen(availablePort) raises "error" (the port was
\* taken after the probe released it): process.exit(1)
ServerError ==
  /\ serverPhase = "starting"
  /\ paPhase = "resolved"
  /\ serverPhase' = "exited"
  /\ appPort' = paResult
  /\ exitCode' = 1
  /\ UNCHANGED <<occupied, preferred, paPhase, probePort, boundPort, paResult,
                 paError, probed, listeners>>
  /\ UNCHANGED <<decVars, hdrVars, proxyVars>>

\* startServer: the catch block, after findAvailablePort rejected
StartServerCatch ==
  /\ serverPhase = "starting"
  /\ paPhase = "rejected"
  /\ serverPhase' = "exited"
  /\ exitCode' = 1
  /\ UNCHANGED <<occupied, preferred, paPhase, probePort, boundPort, paResult,
                 paError, probed, listeners, appPort>>
  /\ UNCHANGED <<decVars, hdrVars, proxyVars>>

PortIdle ==
  /\ occupied = {}
  /\ preferred = 1
  /\ paPhase = "idle"
  /\ probePort = NoPort
  /\ boundPort = NoPort
  /\ paResult = NoPort
  /\ paError = "none"
  /\ probed = <<>>
  /\ listeners = {}
  /\ serverPhase = "starting"
  /\ appPort = NoPort
  /\ exitCode = NoExit

Min(S) == CHOOSE x \in S : \A y \in S : x <= y

\* C9 as stated: whenever findAvailablePort(p) resolves, the result is the
\* smallest port q >= p that is not occupied.
C9_SmallestFreeAnyPreferred ==
  paPhase = "resolved" =>
    /\ paResult \notin occupied
    /\ paResult >= preferred
    /\ \A q \in preferred..(paResult - 1) : q \in occupied

\* C9 amended: for a preferred port p >= 1, whenever findAvailablePort(p)
\* resolves the result is the smallest free port q >= p (q = p when p is
\* free); for p = 0 the result is a free port the operating system chose.
C9_SmallestFree ==
  paPhase = "resolved" =>
    /\ paResult \in FreePorts
    /\ preferred >= 1 =>
         /\ paResult = Min({q \in FreePorts : q >= preferred})
         /\ (preferred \in FreePorts => paResult = preferred)

\* C9 witness: the preferred port and the one after it are occupied, a later
\* one is free, and the call has resolved.
C9_Witness ==
  /\ paPhase = "resolved"
  /\ preferred >= 1
  /\ {preferred, preferred + 1} \subseteq occupied
  /\ paResult = preferred + 2
  /\ paResult < MaxPort
  /\ MaxPort \notin occupied

\* C31: when findAvailablePort has resolved no probe listener is bound any
\* more, on the returned port or on any port probed before it; the call
\* resolves only in the step that closes the listener of the returned port,
\* and a probe is never started while an earlier listener is still bound.
C31_ProbesReleased ==
  /\ [](paPhase = "resolved" =>
          (listeners = {} /\ paResult \notin listeners
           /\ \A i \in 1..Len(probed) : probed[i] \notin listeners))
  /\ [][(paPhase' = "resolved" /\ paPhase # "resolved") =>
          (paPhase = "closing" /\ boundPort \in listeners
           /\ paResult' = boundPort /\ boundPort \notin listeners')]_vars
  /\ [][probed' # probed => listeners = {}]_vars

\* C31 witness: the preferred port was occupied, the probe of the next port
\* bound it, and the call has resolved to it with its listener closed.
C31_Witness ==
  /\ paPhase = "resolved"
  /\ Len(probed) = 2
  /\ probed[1] \in occupied
  /\ paResult = probed[2]
  /\ boundPort = paResult
  /\ listeners = {}

\* C21: a further port is probed only after the probe before it found its
\* port occupied; once findAvailablePort has rejected nothing more is probed,
\* app.listen is never called, and startServer exits with a non-zero code.
C21_OtherErrorIsFatal ==
  /\ [](paPhase = "rejected" => (serverPhase # "listening" /\ appPort = NoPort))
  /\ []((paPhase = "rejected" /\ serverPhase = "exited") =>
          (exitCode # NoExit /\ exitCode # 0))
  /\ [][(probed' # probed /\ probed # <<>>) =>
          (Last(probed) \in occupied \/ (Last(probed) = 0 /\ FreePorts = {}))]_vars
  /\ [][paPhase = "rejected" => (paPhase' = "rejected" /\ probed' = probed)]_vars

\* C21 witness: the preferred port was occupied, the probe of the next port
\* failed with EACCES although a higher port was free, and the process has
\* exited with code 1 after those two probes.
C21_Witness ==
  /\ paError = "EACCES"
  /\ serverPhase = "exited"
  /\ exitCode = 1
  /\ appPort = NoPort
  /\ preferred >= 1
  /\ probed = <<preferred, preferred + 1>>
  /\ preferred + 1 \notin occupied
  /\ MaxPort \in FreePorts

\* C22: the ports probed are preferred, preferred + 1, ... without gap or
\* repetition and never beyond the last valid port; the call resolves only
\* to a port when a free one exists, rejects for running past the last valid
\* port only when no port from the preferred one upward is free, and always
\* settles.
C22_ProbingSettles ==
  /\ [](\A i \in 1..Len(probed) : probed[i] = preferred + i - 1 /\ probed[i] <= MaxPort)
  /\ [](paPhase = "resolved" => \E q \in FreePorts : q >= preferred)
  /\ []((paPhase = "rejected" /\ paError = "ERR_SOCKET_BAD_PORT") =>
          ~\E q \in FreePorts : q >= preferred)
  /\ []((paPhase = "rejected" /\ paError = "ERR_SOCKET_BAD_PORT") =>
          (preferred > MaxPort \/ (probed # <<>> /\ Last(probed) = MaxPort)))
  /\ <>(paPhase \in {"resolved", "rejected"})

\* C22 witness: three occupied ports up to the last valid one were probed in
\* turn and the call rejected at the end of the range.
C22_Witness ==
  /\ paPhase = "rejected"
  /\ paError = "ERR_SOCKET_BAD_PORT"
  /\ Len(probed) = 3
  /\ probed[3] = MaxPort
  /\ \A i \in 1..3 : probed[i] \in occupied

(***************************************************************************)
(* The session registry and the three establishment flows.  A request r    *)
(* that establishes a session builds one client-facing and one             *)
(* agent-facing transport; its session id is the one its client-facing     *)
(* transport generates.                                                    *)
(***************************************************************************)
Reqs == 1..MaxReq

NoT == [side |-> "none", req |-> 0]

ClientT(r) == [side |-> "client", req |-> r]

BackingTShared(r) == [side |-> "backing", req |-> 1]

BackingT(r) == [side |-> "backing", req |-> r]

\* webAppTransport.sessionId, randomUUID: a fresh id for every transport
SessionIdShared(r) == 1

SessionId(r) == r

MapSet(map, id, t) == [map EXCEPT ![id] = t]

MapClear(map, id) == [k \in DOMAIN map |-> NoT]

MapDelete(map, id) == [map EXCEPT ![id] = NoT]

MapHas(map, id) == map[id] # NoT

\* the session id of a request that carries none (header or query undefined)
NoSessionId == -1

\* a session id that no transport of the proxy ever generated
UnknownId == 0

\* Map.prototype.get: undefined for an id that is not a key
MapGet(map, id) == IF id \in DOMAIN map THEN map[id] ELSE NoT

Routes == {"GET /mcp", "POST /mcp", "POST /message"}

NoLookup == [route |-> "none", id |-> NoSessionId, status |-> 0, seen |-> 0]

\* the notification synthesized in the catch block of GET /stdio
ErrorNotification == 0

\* what `await createTransport(req)` can do
CreateOutcomes == {"ok", "401", "error"}

KillChildNever(ch, r) == ch

KillChild(ch, r) == [ch EXCEPT ![r] = IF @ = "running" THEN "killed" ELSE @]

RECURSIVE SumTo(_, _)
SumTo(f, n) == IF n = 0 THEN 0 ELSE f[n] + SumTo(f, n - 1)

TotalRaised == SumTo(cRaised, MaxReq) + SumTo(bRaised, MaxReq)

\* requests are numbered in the order they arrive
Arrives(r) ==
  /\ pc[r] = "idle"
  /\ \A q \in Reqs : q < r => pc[q] # "idle"

(***************************************************************************)
(* mcpProxy({transportToClient, transportToServer}): assigns the message   *)
(* and close handlers of both transports.                                  *)
(***************************************************************************)
AttachPump(r) ==
  /\ pump' = [pump EXCEPT ![r] = "on"]
  /\ cOnmessage' = [cOnmessage EXCEPT ![r] = "pump"]
  /\ bOnmessage' = [bOnmessage EXCEPT ![r] = "pump"]
  /\ bOnclose' = [bOnclose EXCEPT ![r] = "pump"]
  /\ cAttach' = [cAttach EXCEPT ![r] = cRaised[r]]
  /\ bAttach' = [bAttach EXCEPT ![r] = bRaised[r]]

\* the pump's close handler: stop forwarding, unregister the pair
PumpTeardown(r) ==
  /\ pump' = [pump EXCEPT ![r] = "stopped"]
  /\ webAppTransports' = MapDelete(webAppTransports, SessionId(r))
  /\ backingServerTransports' = MapDelete(backingServerTransports, SessionId(r))

\* the cleanup handlers of index.ts: delete both entries of the session
Cleanup(r) ==
  /\ webAppTransports' = MapDelete(webAppTransports, SessionId(r))
  /\ backingServerTransports' = MapDelete(backingServerTransports, SessionId(r))

(***************************************************************************)
(* POST /mcp without a session header.                                     *)
(***************************************************************************)
McpPost(r) ==
  /\ Arrives(r)
  /\ flow' = [flow EXCEPT ![r] = "mcp"]
  /\ pc' = [pc EXCEPT ![r] = "mcp_create"]
  /\ UNCHANGED <<status, regVars, transportVars, msgVars>>
  /\ UNCHANGED <<decVars, hdrVars, portVars>>
  /\ creates' = [creates EXCEPT ![r] = @ + 1]
  /\ UNCHANGED <<childStdin, stdioSendRejected, lastLookup>>

McpCreateDoneRetry(r, outcome) ==
  /\ pc[r] = "mcp_create"
  /\ IF outcome = "ok"
       THEN /\ bState' = [bState EXCEPT ![r] = "open"]
            /\ cState' = [cState EXCEPT ![r] = "started"]
            /\ pc' = [pc EXCEPT ![r] = "mcp_start"]
            /\ UNCHANGED <<status, creates>>
       ELSE /\ status' = [status EXCEPT ![r] = IF outcome = "401" THEN 401 ELSE 500]
            /\ creates' = [creates EXCEPT ![r] = IF outcome = "401" THEN @ + 1 ELSE @]
            /\ pc' = [pc EXCEPT ![r] = "done"]
            /\ UNCHANGED <<bState, cState>>
  /\ UNCHANGED <<flow, regVars, cOnclose, bOnclose, cOnmessage, bOnmessage, child, msgVars>>
  /\ UNCHANGED <<decVars, hdrVars, portVars>>
  /\ UNCHANGED <<childStdin, stdioSendRejected, lastLookup>>

McpCreateDone(r, outcome) ==
  /\ pc[r] = "mcp_create"
  /\ IF outcome = "ok"
       THEN /\ bState' = [bState EXCEPT ![r] = "open"]
            /\ cState' = [cState EXCEPT ![r] = "started"]
            /\ pc' = [pc EXCEPT ![r] = "mcp_start"]
            /\ UNCHANGED status
       ELSE /\ status' = [status EXCEPT ![r] = IF outcome = "401" THEN 401 ELSE 500]
            /\ pc' = [pc EXCEPT ![r] = "done"]
            /\ UNCHANGED <<bState, cState>>
  /\ UNCHANGED <<flow, regVars, cOnclose, bOnclose, cOnmessage, bOnmessage, child, msgVars>>
  /\ UNCHANGED <<decVars, hdrVars, portVars>>
  /\ UNCHANGED auxVars

McpStartDoneRegisters(r) ==
  /\ pc[r] = "mcp_start"
  /\ pc' = [pc EXCEPT ![r] = "mcp_handle"]
  /\ webAppTransports' = MapSet(webAppTransports, SessionId(r), ClientT(r))
  /\ UNCHANGED <<flow, status, backingServerTransports, transportVars, msgVars>>
  /\ UNCHANGED <<decVars, hdrVars, portVars>>
  /\ UNCHANGED auxVars

McpStartDone(r) ==
  /\ pc[r] = "mcp_start"
  /\ pc' = [pc EXCEPT ![r] = "mcp_handle"]
  /\ UNCHANGED <<flow, status, regVars, transportVars, msgVars>>
  /\ UNCHANGED <<decVars, hdrVars, portVars>>
  /\ UNCHANGED auxVars

\* handleRequest(req, res, req.body): on an initialize request the transport
\* calls onsessioninitialized and then raises the request as a message.
McpHandleRequest(r, outcome) ==
  /\ pc[r] = "mcp_handle"
  /\ pc' = [pc EXCEPT ![r] = "done"]
  /\ IF outcome = "init"
       THEN /\ webAppTransports' = MapSet(webAppTransports, SessionId(r), ClientT(r))
            /\ backingServerTransports' =
                 MapSet(backingServerTransports, SessionId(r), BackingT(r))
            /\ AttachPump(r)
            /\ cOnclose' = [cOnclose EXCEPT ![r] = "cleanup"]
            /\ cRaised' = [cRaised EXCEPT ![r] = @ + 1]
            /\ bSent' = [bSent EXCEPT ![r] = Append(@, cRaised[r] + 1)]
            /\ status' = [status EXCEPT ![r] = 200]
            /\ UNCHANGED <<bRaised, cSent>>
       ELSE /\ status' = [status EXCEPT ![r] = IF outcome = "reject" THEN 400 ELSE 500]
            /\ UNCHANGED <<regVars, cOnclose, bOnclose, cOnmessage, bOnmessage, msgVars>>
  /\ UNCHANGED <<flow, cState, bState, child>>
  /\ UNCHANGED <<decVars, hdrVars, portVars>>
  /\ UNCHANGED auxVars

(***************************************************************************)
(* GET /sse.                                                               *)
(***************************************************************************)
SseGet(r) ==
  /\ Arrives(r)
  /\ flow' = [flow EXCEPT ![r] = "sse"]
  /\ cState' = [cState EXCEPT ![r] = "new"]
  /\ webAppTransports' = MapSet(webAppTransports, SessionId(r), ClientT(r))
  /\ pc' = [pc EXCEPT ![r] = "sse_create"]
  /\ UNCHANGED <<status, backingServerTransports, bState, cOnclose, bOnclose,
                 cOnmessage, bOnmessage, child, msgVars>>
  /\ UNCHANGED <<decVars, hdrVars, portVars>>
  /\ creates' = [creates EXCEPT ![r] = @ + 1]
  /\ UNCHANGED <<childStdin, stdioSendRejected, lastLookup>>

SseCreateDone(r, outcome) ==
  /\ pc[r] = "sse_create"
  /\ IF outcome = "ok"
       THEN /\ bState' = [bState EXCEPT ![r] = "open"]
            /\ backingServerTransports' =
                 MapSet(backingServerTransports, SessionId(r), BackingT(r))
            /\ cOnclose' = [cOnclose EXCEPT ![r] = "cleanup"]
            /\ cState' = [cState EXCEPT ![r] = "started"]
            /\ status' = [status EXCEPT ![r] = 200]
            /\ pc' = [pc EXCEPT ![r] = "sse_start"]
       ELSE /\ status' = [status EXCEPT ![r] = IF outcome = "401" THEN 401 ELSE 0]
            /\ pc' = [pc EXCEPT ![r] = "done"]
            /\ UNCHANGED <<bState, backingServerTransports, cOnclose, cState>>
  /\ UNCHANGED <<flow, webAppTransports, bOnclose, cOnmessage, bOnmessage, child, msgVars>>
  /\ UNCHANGED <<decVars, hdrVars, portVars>>
  /\ UNCHANGED auxVars

SseStartDone(r) ==
  /\ pc[r] = "sse_start"
  /\ AttachPump(r)
  /\ cOnclose' = [cOnclose EXCEPT ![r] = "pump"]
  /\ pc' = [pc EXCEPT ![r] = "done"]
  /\ UNCHANGED <<flow, status, regVars, cState, bState, child, cRaised, bRaised, cSent, bSent>>
  /\ UNCHANGED <<decVars, hdrVars, portVars>>
  /\ UNCHANGED auxVars

(***************************************************************************)
(* GET /stdio.  Everything up to `await webAppTransport.start()` runs in   *)
(* one callback; reading the query or spawning the child may throw.        *)
(***************************************************************************)
StdioGet(r, outcome) ==
  /\ Arrives(r)
  /\ flow' = [flow EXCEPT ![r] = "stdio"]
  /\ webAppTransports' = MapSet(webAppTransports, SessionId(r), ClientT(r))
  /\ IF outcome = "ok"
       THEN /\ child' = [child EXCEPT ![r] = "running"]
            /\ bState' = [bState EXCEPT ![r] = "open"]
            /\ bOnclose' = [bOnclose EXCEPT ![r] = "noop"]
            /\ bOnmessage' = [bOnmessage EXCEPT ![r] = "noop"]
            /\ backingServerTransports' =
                 MapSet(backingServerTransports, SessionId(r), BackingT(r))
            /\ cOnclose' = [cOnclose EXCEPT ![r] = "cleanupKill"]
            /\ cState' = [cState EXCEPT ![r] = "started"]
            /\ status' = [status EXCEPT ![r] = 200]
            /\ pc' = [pc EXCEPT ![r] = "stdio_start"]
            /\ UNCHANGED cSent
       ELSE /\ cState' = [cState EXCEPT ![r] = "new"]
            /\ cSent' = [cSent EXCEPT ![r] = Append(@, ErrorNotification)]
            /\ pc' = [pc EXCEPT ![r] = "done"]
            /\ UNCHANGED <<child, bState, bOnclose, bOnmessage, backingServerTransports,
                           cOnclose, status>>
  /\ UNCHANGED <<cOnmessage, pump, cRaised, bRaised, cAttach, bAttach, bSent>>
  /\ UNCHANGED <<decVars, hdrVars, portVars>>
  /\ UNCHANGED auxVars

StdioStartDone(r) ==
  /\ pc[r] = "stdio_start"
  /\ AttachPump(r)
  /\ cOnclose' = [cOnclose EXCEPT ![r] = "pump"]
  /\ pc' = [pc EXCEPT ![r] = "done"]
  /\ UNCHANGED <<flow, status, regVars, cState, bState, child, cRaised, bRaised, cSent, bSent>>
  /\ UNCHANGED <<decVars, hdrVars, portVars>>
  /\ UNCHANGED auxVars

(***************************************************************************)
(* Events of the transports.                                               *)
(***************************************************************************)
\* the client-facing transport closes: its onclose handler runs
ClientCloses(r) ==
  /\ cState[r] = "started"
  /\ cState' = [cState EXCEPT ![r] = "closed"]
  /\ IF cOnclose[r] = "cleanup"
       THEN Cleanup(r) /\ UNCHANGED <<bState, child, pump>>
     ELSE IF cOnclose[r] = "cleanupKill"
       THEN /\ Cleanup(r)
            /\ bState' = [bState EXCEPT ![r] = "closed"]
            /\ child' = KillChild(child, r)
            /\ UNCHANGED pump
     ELSE IF cOnclose[r] = "pump" /\ pump[r] = "on"
       THEN /\ PumpTeardown(r)
            /\ bState' = [bState EXCEPT ![r] = "closed"]
            /\ child' = KillChild(child, r)
     ELSE UNCHANGED <<regVars, bState, child, pump>>
  /\ UNCHANGED <<reqVars, cOnclose, bOnclose, cOnmessage, bOnmessage>>
  /\ UNCHANGED <<cRaised, bRaised, cAttach, bAttach, cSent, bSent>>
  /\ UNCHANGED <<decVars, hdrVars, portVars>>
  /\ UNCHANGED auxVars

\* the handler assigned to backingServerTransport.onclose runs
BackingOnclose(r) ==
  IF bOnclose[r] = "pump" /\ pump[r] = "on"
    THEN /\ PumpTeardown(r)
         /\ cState' = [cState EXCEPT ![r] = "closed"]
    ELSE UNCHANGED <<regVars, cState, pump>>

\* the remote connection of an agent-facing transport closes
BackingCloses(r) ==
  /\ flow[r] \in {"mcp", "sse"}
  /\ bState[r] = "open"
  /\ bState' = [bState EXCEPT ![r] = "closed"]
  /\ BackingOnclose(r)
  /\ UNCHANGED <<reqVars, cOnclose, bOnclose, cOnmessage, bOnmessage, child>>
  /\ UNCHANGED <<cRaised, bRaised, cAttach, bAttach, cSent, bSent>>
  /\ UNCHANGED <<decVars, hdrVars, portVars>>
  /\ UNCHANGED auxVars

\* child.on("exit"): backingServerTransport.onclose()
ChildExit(r) ==
  /\ child[r] \in {"running", "killed"}
  /\ child' = [child EXCEPT ![r] = "exited"]
  /\ bState' = [bState EXCEPT ![r] = "closed"]
  /\ BackingOnclose(r)
  /\ UNCHANGED <<reqVars, cOnclose, bOnclose, cOnmessage, bOnmessage>>
  /\ UNCHANGED <<cRaised, bRaised, cAttach, bAttach, cSent, bSent>>
  /\ UNCHANGED <<decVars, hdrVars, portVars>>
  /\ UNCHANGED auxVars

\* the pump's message handlers: forward m to send() of the other side
Forward(log, m) == Append(log, m)

\* lineDecoder.onmessage of GET /stdio: calls the handler that
\* backingServerTransport.onmessage holds when the line is decoded
LineHandlerCaptured(r) == "noop"

LineHandler(r) == bOnmessage[r]

\* the agent-facing transport raises onmessage (for /stdio: a decoded line)
BackingMessage(r) ==
  /\ TotalRaised < MaxMsgs
  /\ \/ flow[r] \in {"mcp", "sse"} /\ bState[r] = "open"
     \/ flow[r] = "stdio" /\ child[r] \in {"running", "killed"}
  /\ bRaised' = [bRaised EXCEPT ![r] = @ + 1]
  /\ IF (IF flow[r] = "stdio" THEN LineHandler(r) ELSE bOnmessage[r]) = "pump"
        /\ pump[r] = "on"
       THEN cSent' = [cSent EXCEPT ![r] = Forward(@, bRaised[r] + 1)]
       ELSE UNCHANGED cSent
  /\ UNCHANGED <<regVars, reqVars, transportVars, pump, cRaised, cAttach, bAttach, bSent>>
  /\ UNCHANGED <<decVars, hdrVars, portVars>>
  /\ UNCHANGED auxVars

\* backingServerTransport.send of the /stdio adapter, on io = [stdin,
\* rejected]: the input of the child and whether the returned promise rejects
StdioSendWrites(io, m) == [io EXCEPT !.stdin = Append(@, m)]

StdioSend(io, m) == io

\* POST /message or POST /mcp with the session id: the client-facing
\* transport found in the map raises onmessage
ClientMessage(r) ==
  /\ TotalRaised < MaxMsgs
  /\ MapHas(webAppTransports, SessionId(r))
  /\ cState[r] = "started"
  /\ cRaised' = [cRaised EXCEPT ![r] = @ + 1]
  /\ IF cOnmessage[r] = "pump" /\ pump[r] = "on"
       THEN bSent' = [bSent EXCEPT ![r] = Forward(@, cRaised[r] + 1)]
       ELSE UNCHANGED bSent
  /\ LET io == [stdin |-> childStdin[r], rejected |-> stdioSendRejected[r]]
         after == IF cOnmessage[r] = "pump" /\ pump[r] = "on" /\ flow[r] = "stdio"
                    THEN StdioSend(io, cRaised[r] + 1)
                    ELSE io
     IN /\ childStdin' = [childStdin EXCEPT ![r] = after.stdin]
        /\ stdioSendRejected' = [stdioSendRejected EXCEPT ![r] = after.rejected]
  /\ UNCHANGED <<regVars, reqVars, transportVars, pump, bRaised, cAttach, bAttach, cSent>>
  /\ UNCHANGED <<decVars, hdrVars, portVars>>
  /\ UNCHANGED <<creates, lastLookup>>

\* GET /mcp, POST /mcp with a session id, POST /message: the branch taken
\* when webAppTransports.get(sessionId) is undefined
SessionNotFoundRegisters(route, id) ==
  /\ route = "POST /mcp" => id # NoSessionId
  /\ MapGet(webAppTransports, id) = NoT
  /\ lastLookup' = [route |-> route, id |-> id, status |-> 404,
                    seen |-> Cardinality({r \in Reqs : pc[r] # "idle"})]
  /\ webAppTransports' =
       IF id \in Reqs THEN MapSet(webAppTransports, id, ClientT(id))
                      ELSE webAppTransports
  /\ UNCHANGED <<backingServerTransports, reqVars, transportVars, msgVars>>
  /\ UNCHANGED <<creates, childStdin, stdioSendRejected>>
  /\ UNCHANGED <<decVars, hdrVars, portVars>>

SessionNotFound(route, id) ==
  /\ route = "POST /mcp" => id # NoSessionId
  /\ MapGet(webAppTransports, id) = NoT
  /\ lastLookup' = [route |-> route, id |-> id, status |-> 404,
                    seen |-> Cardinality({r \in Reqs : pc[r] # "idle"})]
  /\ UNCHANGED <<regVars, reqVars, transportVars, msgVars>>
  /\ UNCHANGED <<creates, childStdin, stdioSendRejected>>
  /\ UNCHANGED <<decVars, hdrVars, portVars>>

ProxyIdle ==
  /\ pc = [r \in Reqs |-> "idle"]
  /\ flow = [r \in Reqs |-> "none"]
  /\ status = [r \in Reqs |-> 0]
  /\ webAppTransports = [r \in Reqs |-> NoT]
  /\ backingServerTransports = [r \in Reqs |-> NoT]
  /\ cState = [r \in Reqs |-> "none"]
  /\ bState = [r \in Reqs |-> "none"]
  /\ cOnclose = [r \in Reqs |-> "unset"]
  /\ bOnclose = [r \in Reqs |-> "unset"]
  /\ cOnmessage = [r \in Reqs |-> "unset"]
  /\ bOnmessage = [r \in Reqs |-> "unset"]
  /\ child = [r \in Reqs |-> "none"]
  /\ pump = [r \in Reqs |-> "off"]
  /\ cRaised = [r \in Reqs |-> 0]
  /\ bRaised = [r \in Reqs |-> 0]
  /\ cAttach = [r \in Reqs |-> 0]
  /\ bAttach = [r \in Reqs |-> 0]
  /\ cSent = [r \in Reqs |-> <<>>]
  /\ bSent = [r \in Reqs |-> <<>>]
  /\ creates = [r \in Reqs |-> 0]
  /\ childStdin = [r \in Reqs |-> <<>>]
  /\ stdioSendRejected = [r \in Reqs |-> FALSE]
  /\ lastLookup = NoLookup

Init == DecoderIdle /\ HeadersIdle /\ EnvIdle /\ SamplingIdle /\ LauncherIdle /\ FormIdle /\ PortIdle /\ ProxyIdle

Next ==
  \/ \E r \in Reqs : McpPost(r)
  \/ \E r \in Reqs, o \in CreateOutcomes : McpCreateDone(r, o)
  \/ \E r \in Reqs : McpStartDone(r)
  \/ \E r \in Reqs, o \in {"init", "reject", "throw"} : McpHandleRequest(r, o)
  \/ \E r \in Reqs : SseGet(r)
  \/ \E r \in Reqs, o \in CreateOutcomes : SseCreateDone(r, o)
  \/ \E r \in Reqs : SseStartDone(r)
  \/ \E r \in Reqs, o \in {"ok", "throw"} : StdioGet(r, o)
  \/ \E r \in Reqs : StdioStartDone(r)
  \/ \E r \in Reqs : ClientCloses(r)
  \/ \E r \in Reqs : BackingCloses(r)
  \/ \E r \in Reqs : ChildExit(r)

\* the registry and the lifecycle of the sessions of MaxReq requests
Spec == Init /\ [][Next]_vars

PumpReqs == 1..MaxPumpReq

NextMsgs ==
  \/ \E r \in PumpReqs : McpPost(r)
  \/ \E r \in PumpReqs, o \in CreateOutcomes : McpCreateDone(r, o)
  \/ \E r \in PumpReqs : McpStartDone(r)
  \/ \E r \in PumpReqs, o \in {"init", "reject", "throw"} : McpHandleRequest(r, o)
  \/ \E r \in PumpReqs : SseGet(r)
  \/ \E r \in PumpReqs, o \in CreateOutcomes : SseCreateDone(r, o)
  \/ \E r \in PumpReqs : SseStartDone(r)
  \/ \E r \in PumpReqs, o \in {"ok", "throw"} : StdioGet(r, o)
  \/ \E r \in PumpReqs : StdioStartDone(r)
  \/ \E r \in PumpReqs : ClientCloses(r)
  \/ \E r \in PumpReqs : BackingCloses(r)
  \/ \E r \in PumpReqs : ChildExit(r)
  \/ \E r \in PumpReqs : BackingMessage(r)
  \/ \E r \in PumpReqs : ClientMessage(r)

\* the same sessions, with the messages their transports raise
SpecMsgs == Init /\ [][NextMsgs]_vars

LookupIds == PumpReqs \cup {UnknownId, NoSessionId}

NextLookup ==
  \/ \E r \in PumpReqs : McpPost(r)
  \/ \E r \in PumpReqs, o \in CreateOutcomes : McpCreateDone(r, o)
  \/ \E r \in PumpReqs : McpStartDone(r)
  \/ \E r \in PumpReqs, o \in {"init", "reject", "throw"} : McpHandleRequest(r, o)
  \/ \E r \in PumpReqs : SseGet(r)
  \/ \E r \in PumpReqs, o \in CreateOutcomes : SseCreateDone(r, o)
  \/ \E r \in PumpReqs : SseStartDone(r)
  \/ \E r \in PumpReqs, o \in {"ok", "throw"} : StdioGet(r, o)
  \/ \E r \in PumpReqs : StdioStartDone(r)
  \/ \E r \in PumpReqs : ClientCloses(r)
  \/ \E r \in PumpReqs : BackingCloses(r)
  \/ \E r \in PumpReqs : ChildExit(r)
  \/ \E route \in Routes, id \in LookupIds : SessionNotFound(route, id)

\* the same sessions, with the requests that name a session id
SpecLookup == Init /\ [][NextLookup]_vars

Ids(a, b) == [i \in 1..(b - a) |-> a + i]

IsPrefix(s, t) == Len(s) <= Len(t) /\ SubSeq(t, 1, Len(s)) = s

\* C1 as stated: at every moment between callbacks, a session id is a key
\* of webAppTransports if and only if it is a key of backingServerTransports.
C1_NoHalfPair ==
  \A id \in Reqs :
    MapHas(webAppTransports, id) <=> MapHas(backingServerTransports, id)

\* C2 as stated, for a run that has come to rest: once a transport of a
\* session has closed and the handler of the session has finished (no kill
\* is still on its way to the child), neither map holds the session id.
C2_ClosedSessionUnregistered ==
  \A r \in Reqs :
    (/\ pc[r] = "done"
     /\ child[r] # "killed"
     /\ cState[r] = "closed" \/ bState[r] = "closed")
    => /\ ~MapHas(webAppTransports, SessionId(r))
       /\ ~MapHas(backingServerTransports, SessionId(r))

\* C3 as stated, for a run that has come to rest: no session whose pump was
\* attached has one transport closed and the other still open.
C3_ClosePropagates ==
  \A r \in Reqs :
    (pc[r] = "done" /\ pump[r] # "off") =>
      /\ cState[r] = "closed" => bState[r] # "open"
      /\ bState[r] = "closed" => cState[r] # "started"

\* C4: in each direction of a session whose pump is attached, the messages
\* passed to send() of one transport are exactly the messages the other
\* transport raised since the pump was attached, unchanged and in order; once
\* the pump has stopped nothing more is passed on.
C4_ForwardedInOrder ==
  \A r \in Reqs :
    /\ pump[r] = "on" =>
         /\ cSent[r] = Ids(bAttach[r], bRaised[r])
         /\ bSent[r] = Ids(cAttach[r], cRaised[r])
    /\ pump[r] = "stopped" =>
         /\ IsPrefix(cSent[r], Ids(bAttach[r], bRaised[r]))
         /\ IsPrefix(bSent[r], Ids(cAttach[r], cRaised[r]))

\* C4 witness: a session whose pump is attached has passed two agent
\* messages on to the client, after one that arrived before the pump.
C4_Witness ==
  \E r \in Reqs :
    /\ pump[r] = "on"
    /\ bAttach[r] = 0
    /\ cSent[r] = <<1, 2>>

\* C10 as stated: a request answered 401 has left no entry in either map
\* once its handler has finished.
C10_UnauthorizedLeavesNoEntry ==
  \A r \in Reqs :
    (pc[r] = "done" /\ status[r] = 401) =>
      /\ ~MapHas(webAppTransports, SessionId(r))
      /\ ~MapHas(backingServerTransports, SessionId(r))

\* C11 as stated, for a run that has come to rest: when the child of a
\* GET /stdio session has exited and the handler has finished, the client
\* transport is closed and neither map holds the session id.
C11_ChildExitTearsDown ==
  \A r \in Reqs :
    (flow[r] = "stdio" /\ child[r] = "exited" /\ pc[r] = "done") =>
      /\ cState[r] = "closed"
      /\ ~MapHas(webAppTransports, SessionId(r))
      /\ ~MapHas(backingServerTransports, SessionId(r))

\* C13: in the POST /mcp new-session flow, until the session-initialized
\* callback has fired (the request has not been answered 200) neither map
\* holds the session id and no pump is attached; the step in which it fires
\* finds the backing connection built, sets both entries and attaches the
\* pump together; a request whose callback never fires registers nothing.
C13_RegisteredOnlyWhenInitialized ==
  /\ [](\A r \in Reqs :
         (flow[r] = "mcp" /\ status[r] # 200) =>
           /\ ~MapHas(webAppTransports, SessionId(r))
           /\ ~MapHas(backingServerTransports, SessionId(r))
           /\ pump[r] = "off")
  /\ [][\A r \in Reqs :
         (/\ flow[r] = "mcp"
          /\ \/ MapHas(webAppTransports, SessionId(r))' /\ ~MapHas(webAppTransports, SessionId(r))
             \/ MapHas(backingServerTransports, SessionId(r))'
                  /\ ~MapHas(backingServerTransports, SessionId(r))
             \/ pump'[r] = "on" /\ pump[r] = "off")
         => /\ bState[r] # "none"
            /\ status[r] # 200 /\ status'[r] = 200
            /\ webAppTransports'[SessionId(r)] = ClientT(r)
            /\ backingServerTransports'[SessionId(r)] = BackingT(r)
            /\ pump'[r] = "on"]_vars

\* C13 witness: the callback of a POST /mcp session has fired: both entries
\* are set and the pump is attached, with the backing connection open.
C13_Witness ==
  \E r \in Reqs :
    /\ flow[r] = "mcp"
    /\ pc[r] = "done"
    /\ status[r] = 200
    /\ webAppTransports[SessionId(r)] = ClientT(r)
    /\ backingServerTransports[SessionId(r)] = BackingT(r)
    /\ pump[r] = "on"
    /\ bState[r] = "open"

\* what the model holds of the session of request r
SessionState(r) ==
  <<webAppTransports[SessionId(r)], backingServerTransports[SessionId(r)],
    cState[r], bState[r], child[r], pump[r],
    cOnclose[r], bOnclose[r], cOnmessage[r], bOnmessage[r]>>

C12_UnknownSessionNotFound ==
  /\ [][lastLookup' # lastLookup =>
         /\ MapGet(webAppTransports, lastLookup'.id) = NoT
         /\ lastLookup'.status = 404
         /\ UNCHANGED <<regVars, reqVars, transportVars, msgVars, creates>>]_vars
  /\ [](lastLookup.status = 404 =>
         \A r \in PumpReqs :
           Arrives(r) => ENABLED (McpPost(r) \/ SseGet(r) \/ StdioGet(r, "ok")))

\* C12 witness: POST /message named the id of a session that had been
\* established and torn down, and was answered 404.
C12_Witness ==
  /\ lastLookup = [route |-> "POST /message", id |-> SessionId(1), status |-> 404,
                   seen |-> 1]
  /\ status[1] = 200
  /\ pump[1] = "stopped"
  /\ cState[1] = "closed"

\* C18: send() of the agent-facing transport of a /stdio session never
\* rejects and writes nothing: whatever the clients post and the pump passes
\* on, the standard input of every child stays empty, whether the child is
\* running, killed or has exited.
C18_StdioSendIsNoOp ==
  \A r \in Reqs :
    /\ childStdin[r] = <<>>
    /\ ~stdioSendRejected[r]

\* C18 witness: the child of a /stdio session exited before the pump was
\* attached, and a client message was then passed to send().
C18_Witness ==
  \E r \in Reqs :
    /\ flow[r] = "stdio"
    /\ child[r] = "exited"
    /\ pump[r] = "on"
    /\ Len(bSent[r]) >= 1

\* C19: an establishment request (POST /mcp without session id, GET /sse)
\* answered 401 has called createTransport exactly once; no request calls it
\* a second time.
C19_NoRetryAfterUnauthorized ==
  \A r \in Reqs :
    /\ creates[r] <= 1
    /\ (flow[r] \in {"mcp", "sse"} /\ status[r] = 401) => creates[r] = 1

\* C19 witness: a POST /mcp and a GET /sse were both answered 401, each
\* after one call of createTransport.
C19_Witness ==
  \E r, q \in Reqs :
    /\ flow[r] = "mcp" /\ flow[q] = "sse"
    /\ pc[r] = "done" /\ pc[q] = "done"
    /\ status[r] = 401 /\ status[q] = 401
    /\ creates[r] = 1 /\ creates[q] = 1

\* the handler of request r has finished after building the backing side of
\* a push-stream session failed with an exception other than a 401 rejection
BackingFailed(r) ==
  /\ flow[r] \in {"sse", "stdio"}
  /\ pc[r] = "done"
  /\ bState[r] = "none"
  /\ status[r] # 401

\* the handler of request r has finished after an exception other than a
\* 401 rejection interrupted the establishment
EstablishmentThrew(r) ==
  \/ BackingFailed(r)
  \/ flow[r] = "mcp" /\ pc[r] = "done" /\ status[r] = 500

\* C15 as stated: when building the backing side of a GET /sse or GET /stdio
\* session has failed (not with 401), the session is removed from both maps,
\* and the client-facing transport, if it was started, has been sent the
\* transport/error notification and is closed.
C15_BackingFailureTearsDown ==
  \A r \in Reqs :
    BackingFailed(r) =>
      /\ ~MapHas(webAppTransports, SessionId(r))
      /\ ~MapHas(backingServerTransports, SessionId(r))
      /\ cState[r] \in {"new", "closed"}
      /\ cState[r] = "closed" => cSent[r] = <<ErrorNotification>>

\* C16 as stated: a request whose handler failed with an exception other
\* than a 401 rejection has been answered with status 500.
C16_FailureAnswered500 ==
  \A r \in Reqs : EstablishmentThrew(r) => status[r] = 500

\* C17 as stated: once the handler of an establishment interrupted by an
\* exception has finished, neither map holds the session id of the attempt,
\* and the agent-facing transport or child started for it is not left open.
C17_FailedEstablishmentLeavesNothing ==
  \A r \in Reqs :
    EstablishmentThrew(r) =>
      /\ ~MapHas(webAppTransports, SessionId(r))
      /\ ~MapHas(backingServerTransports, SessionId(r))
      /\ bState[r] # "open"
      /\ child[r] # "running"

\* C23: however the establishment requests interleave, a session id is
\* mapped only to the client-facing and the agent-facing transport built by
\* the request that generated the id, and no write to a map replaces an
\* entry that is present.
C23_PairsNeverMixed ==
  /\ [](\A r \in Reqs :
         /\ webAppTransports[SessionId(r)] \in {NoT, ClientT(r)}
         /\ backingServerTransports[SessionId(r)] \in {NoT, BackingT(r)})
  /\ [][\A id \in Reqs :
         /\ (MapHas(webAppTransports, id) /\ MapHas(webAppTransports, id)')
              => webAppTransports'[id] = webAppTransports[id]
         /\ (MapHas(backingServerTransports, id) /\ MapHas(backingServerTransports, id)')
              => backingServerTransports'[id] = backingServerTransports[id]]_vars

\* C23 witness: a GET /sse and a GET /stdio request are both suspended at
\* their await of start(), each registered with its own pair of transports.
C23_Witness ==
  \E r, q \in Reqs :
    /\ pc[r] = "sse_start" /\ pc[q] = "stdio_start"
    /\ webAppTransports[SessionId(r)] = ClientT(r)
    /\ backingServerTransports[SessionId(r)] = BackingT(r)
    /\ webAppTransports[SessionId(q)] = ClientT(q)
    /\ backingServerTransports[SessionId(q)] = BackingT(q)

\* the session of request r was registered and both its entries are deleted
EntriesRemoved(r) ==
  /\ status[r] = 200
  /\ ~MapHas(webAppTransports, SessionId(r))
  /\ ~MapHas(backingServerTransports, SessionId(r))

\* C24 as stated: once the client-facing transport of a session has closed
\* or its entries have been removed, no step passes a message to send() of
\* either transport of the session.
C24_NothingForwardedAfterClose ==
  [][\A r \in Reqs :
       (cState[r] = "closed" \/ EntriesRemoved(r)) =>
         (cSent'[r] = cSent[r] /\ bSent'[r] = bSent[r])]_vars

\* C25: in a GET /stdio session whose client-facing transport has closed,
\* close() of the process adapter was called: the agent side is closed and the
\* child was killed or had already exited; no child is still running once
\* its session is closed or unregistered.
C25_ClientCloseKillsChild ==
  \A r \in Reqs :
    flow[r] = "stdio" =>
      /\ cState[r] = "closed" => (bState[r] = "closed" /\ child[r] \in {"killed", "exited"})
      /\ EntriesRemoved(r) => child[r] # "running"

\* C25 witness: the client-facing transport of a /stdio session closed after
\* the pump had been attached, and the child was killed.
C25_Witness ==
  \E r \in Reqs :
    /\ flow[r] = "stdio"
    /\ pc[r] = "done"
    /\ pump[r] = "stopped"
    /\ cState[r] = "closed"
    /\ child[r] = "killed"

\* C27 as stated: in a GET /stdio session that is open with its pump
\* attached, every message decoded from the child's output since the spawn
\* has been passed to send() of the client-facing transport.
C27_EveryLineForwarded ==
  \A r \in Reqs :
    (flow[r] = "stdio" /\ pump[r] = "on" /\ cState[r] = "started") =>
      cSent[r] = Ids(0, bRaised[r])

\* C28 as stated, for a handler that has finished: the agent-facing
\* transport started by a POST /mcp whose session-initialized callback did
\* not fire is not left open and unregistered.
C28_UnregisteredBackingClosed ==
  \A r \in Reqs :
    (flow[r] = "mcp" /\ pc[r] = "done" /\ status[r] # 200) =>
      ~(bState[r] = "open" /\ ~MapHas(backingServerTransports, SessionId(r)))

\* C32: no transport is the value of two session ids in webAppTransports or
\* in backingServerTransports, and the client-facing transport registered
\* for one session was never built together with the agent-facing transport
\* (or child) registered for another: each request's transports serve its
\* own session only.
C32_NoTransportShared ==
  \A a, b \in Reqs :
    a # b =>
      /\ MapHas(webAppTransports, a) => webAppTransports[a] # webAppTransports[b]
      /\ MapHas(backingServerTransports, a) =>
           backingServerTransports[a] # backingServerTransports[b]
      /\ (MapHas(webAppTransports, a) /\ MapHas(backingServerTransports, b)) =>
           webAppTransports[a].req # backingServerTransports[b].req

\* C32 witness: a POST /mcp session and a GET /stdio session are both
\* established, each with its pump attached, and the four registered
\* transports are four different instances.
C32_Witness ==
  \E r, q \in Reqs :
    /\ flow[r] = "mcp" /\ flow[q] = "stdio"
    /\ pc[r] = "done" /\ pc[q] = "done"
    /\ pump[r] = "on" /\ pump[q] = "on"
    /\ Cardinality({webAppTransports[SessionId(r)], webAppTransports[SessionId(q)],
                    backingServerTransports[SessionId(r)],
                    backingServerTransports[SessionId(q)]} \ {NoT}) = 4

InitDecoder == DecoderIdle /\ HeadersIdle /\ EnvIdle /\ SamplingIdle /\ LauncherIdle /\ FormIdle /\ PortIdle /\ ProxyIdle

NextDecoder == \E chunk \in ChunksOf(MaxChunk) : Push(chunk)

SpecDecoder == InitDecoder /\ [][NextDecoder]_vars

\* values on which a handler assigned to onmessage may throw
ThrowSets == {{<<"1">>}, {<<"1">>, <<"[", "]">>}}

InitDecoderThrow ==
  /\ HeadersIdle
  /\ EnvIdle
  /\ SamplingIdle
  /\ LauncherIdle
  /\ FormIdle
  /\ PortIdle
  /\ ProxyIdle
  /\ throwOn \in ThrowSets
  /\ handlerErrors = 0
  /\ buffer = <<>>
  /\ emitted = <<>>
  /\ threw = FALSE
  /\ parseErrors = 0
  /\ pushed = <<>>
  /\ nPushes = 0
  /\ splitLines = 0

\* a LineDecoder whose onmessage handler throws on some values
SpecDecoderThrow == InitDecoderThrow /\ [][NextDecoder]_vars

NextSampling ==
  \/ OnPendingRequest
  \/ \E id \in SamplingIds : HandleApproveSampling(id)
  \/ \E id \in SamplingIds : HandleRejectSampling(id)

\* the pending sampling requests of the client
SpecSampling == Init /\ [][NextSampling]_vars

InitLauncher ==
  /\ DecoderIdle
  /\ HeadersIdle
  /\ EnvIdle
  /\ SamplingIdle
  /\ PortIdle
  /\ ProxyIdle
  /\ FormIdle
  /\ lPc = "start"
  /\ serverProc = "none"
  /\ clientProc = "none"
  /\ delayFired = FALSE
  /\ raceWinner = "none"
  /\ serverOk = "undefined"
  /\ cancelled = FALSE
  /\ debug \in BOOLEAN
  /\ lExit = NoExit

NextLauncher ==
  \/ SpawnServer
  \/ ServerRejects
  \/ \E out \in {"", "output"} : ServerResolves(out)
  \/ DelayElapses
  \/ Sigint
  \/ AfterRace
  \/ \E rejected \in BOOLEAN : ClientEnds(rejected)

\* the launcher, from its start to process.exit
SpecLauncher == InitLauncher /\ [][NextLauncher]_vars

InitForm ==
  /\ DecoderIdle
  /\ HeadersIdle
  /\ EnvIdle
  /\ SamplingIdle
  /\ LauncherIdle
  /\ PortIdle
  /\ ProxyIdle
  /\ multipleClients \in FormLists
  /\ savePc = "idle"
  /\ saveCalls = <<>>
  /\ toasts = <<>>

NextForm ==
  \/ HandleSave
  \/ \E someSuccess, someFailed \in BOOLEAN : OnSaveResolves(someSuccess, someFailed)
  \/ OnSaveRejects

\* one call of handleSave on every form of at most MaxClients clients
SpecForm == InitForm /\ [][NextForm]_vars

InitHeaders ==
  /\ DecoderIdle
  /\ EnvIdle
  /\ SamplingIdle
  /\ LauncherIdle
  /\ FormIdle
  /\ PortIdle
  /\ ProxyIdle
  /\ hReq \in Requests
  /\ hOut = NoHeaders
  /\ hResult = "pending"

NextHeaders == \E outcome \in StartOutcomes : CreateTransport(outcome)

SpecHeaders == InitHeaders /\ [][NextHeaders]_vars

InitPort ==
  /\ DecoderIdle
  /\ HeadersIdle
  /\ EnvIdle
  /\ SamplingIdle
  /\ LauncherIdle
  /\ FormIdle
  /\ ProxyIdle
  /\ occupied \in SUBSET Ports
  /\ preferred \in 0..MaxPort
  /\ paPhase = "idle"
  /\ probePort = NoPort
  /\ boundPort = NoPort
  /\ paResult = NoPort
  /\ paError = "none"
  /\ probed = <<>>
  /\ listeners = {}
  /\ serverPhase = "starting"
  /\ appPort = NoPort
  /\ exitCode = NoExit

NextPort ==
  \/ FindAvailablePort
  \/ OnListening
  \/ OnClosed
  \/ OnErrorInUse
  \/ OnErrorOther
  \/ ServerListening
  \/ ServerError
  \/ StartServerCatch

SpecPort == InitPort /\ [][NextPort]_vars

InitEnv ==
  /\ DecoderIdle
  /\ HeadersIdle
  /\ PortIdle
  /\ ProxyIdle
  /\ envIn \in [process : EnvMaps, sdk : EnvMaps, mcp : EnvMaps, query : EnvMaps]
  /\ envOut = EmptyEnv
  /\ envDone = FALSE
  /\ SamplingIdle
  /\ LauncherIdle
  /\ FormIdle

NextEnv == MergeEnv

\* the environment merge of GET /stdio, for every four maps
SpecEnv == InitEnv /\ [][NextEnv]_vars

\* the event loop delivers every pending callback
SpecPortFair == InitPort /\ [][NextPort]_vars /\ WF_vars(NextPort)

====
